---- MODULE Spec2Model ----
(***************************************************************************)
(* Document processing pipeline of src/ai_services.py: OCRService,         *)
(* NLPService (remote analysis and the regex/keyword fallback) and         *)
(* DocumentProcessor.process_document, as a state machine over one         *)
(* interpreter process that runs the pipeline repeatedly.                  *)
(*                                                                         *)
(* Python str values are TLA+ strings (ASCII only); str operations are     *)
(* computed character by character with Len, SubSeq and \o.                *)
(***************************************************************************)
EXTENDS Integers, Sequences, FiniteSets, TLC

\* ------------------------------------------------------------------ bounds
\* A document text is the concatenation of at most MaxFrags fragments.
MaxFrags == 2
\* PYTHONHASHSEED values 0..MaxHashSeed a process may start with.
MaxHashSeed == 1
\* OCR engines report at most MaxConfTokens per-token confidences.
MaxConfTokens == 3
\* NumRuns calls of process_document are in flight together.
NumRuns == 2

\* ------------------------------------------------------- program constants
PromptLimit == 4000
SummaryLimit == 200
SentimentStep == 20
SentimentMax == 100

\* ------------------------------------------------------------ str helpers
Min(S) == CHOOSE x \in S : \A y \in S : x <= y
Max(S) == CHOOSE x \in S : \A y \in S : x >= y

\* s[i-1] of Python (1-based here); "" outside the string
Ch(s, i) == IF i >= 1 /\ i <= Len(s) THEN SubSeq(s, i, i) ELSE ""

UpperLetters == "ABCDEFGHIJKLMNOPQRSTUVWXYZ"
LowerLetters == "abcdefghijklmnopqrstuvwxyz"
DigitChars == "0123456789"

\* the characters of a string, as a set
CharsOf(chars) == {SubSeq(chars, i, i) : i \in 1..Len(chars)}

UpperSet == CharsOf(UpperLetters)
LetterSet == UpperSet \cup CharsOf(LowerLetters)
DigitSet == CharsOf(DigitChars)
WordSet == LetterSet \cup DigitSet \cup {"_"}

\* the lower-case letter of each upper-case letter
LowerOf ==
    [c \in UpperSet |->
        LET i == CHOOSE k \in 1..Len(UpperLetters) : SubSeq(UpperLetters, k, k) = c
        IN SubSeq(LowerLetters, i, i)]

IsDigit(c) == c \in DigitSet
IsLetter(c) == c \in LetterSet
\* \w of the re module
IsWord(c) == c \in WordSet
\* str.isspace, for the whitespace the inputs use
IsSpace(c) == c \in {" ", "\n", "\t", "\r"}

LowerCh(c) == IF c \in UpperSet THEN LowerOf[c] ELSE c

\* str.lower
RECURSIVE Lower(_)
Lower(s) == IF Len(s) = 0 THEN "" ELSE LowerCh(Ch(s, 1)) \o Lower(SubSeq(s, 2, Len(s)))

\* `word in s`
Contains(word, s) ==
    \E i \in 1..(Len(s) - Len(word) + 1) : SubSeq(s, i, i + Len(word) - 1) = word

\* str.startswith
StartsWith(s, prefix) == Len(s) >= Len(prefix) /\ SubSeq(s, 1, Len(prefix)) = prefix

\* str.strip
Strip(s) ==
    LET keep == {i \in 1..Len(s) : ~IsSpace(Ch(s, i))}
    IN IF keep = {} THEN "" ELSE SubSeq(s, Min(keep), Max(keep))

\* len(s.split()): the number of maximal runs of non-whitespace
SplitCount(s) ==
    Cardinality({i \in 1..Len(s) : ~IsSpace(Ch(s, i)) /\ (i = 1 \/ IsSpace(Ch(s, i - 1)))})

\* s[:n]
Prefix(s, n) == SubSeq(s, 1, IF n < Len(s) THEN n ELSE Len(s))

\* --------------------------------------------------- NLPService fallback
InvoiceWords == {"invoice", "bill", "payment", "amount due"}
ContractWords == {"contract", "agreement", "terms", "conditions"}
ReportWords == {"report", "analysis", "findings", "conclusion"}
ResumeWords == {"resume", "cv", "curriculum vitae", "experience"}

\* any(word in text_lower for word in words)
AnyWordIn(words, text_lower) == \E w \in words : Contains(w, text_lower)

\* _detect_document_type with the contract keywords tested before the invoice ones
DetectContractFirst(text) ==
    LET text_lower == Lower(text)
    IN IF AnyWordIn(ContractWords, text_lower) THEN "contract"
       ELSE IF AnyWordIn(InvoiceWords, text_lower) THEN "invoice"
       ELSE IF AnyWordIn(ReportWords, text_lower) THEN "report"
       ELSE IF AnyWordIn(ResumeWords, text_lower) THEN "resume"
       ELSE "general_document"

_detect_document_type(text) ==
    LET text_lower == Lower(text)
    IN IF AnyWordIn(InvoiceWords, text_lower) THEN "invoice"
       ELSE IF AnyWordIn(ContractWords, text_lower) THEN "contract"
       ELSE IF AnyWordIn(ReportWords, text_lower) THEN "report"
       ELSE IF AnyWordIn(ResumeWords, text_lower) THEN "resume"
       ELSE "general_document"

\* \b before the character at index p
WordBoundary(s, p) == IsWord(Ch(s, p - 1)) # IsWord(Ch(s, p))

\* the characters p .. p+n-1 exist and are all digits
Digits(s, p, n) == p + n - 1 <= Len(s) /\ \A i \in p..(p + n - 1) : IsDigit(Ch(s, i))

IsDateSep(c) == c \in {"/", "-"}

\* length of the longest run of characters of the class cls that starts at p
RECURSIVE RunLen(_, _, _)
RunLen(cls, s, p) == IF Ch(s, p) \in cls THEN 1 + RunLen(cls, s, p + 1) ELSE 0

\* a \d{..}[/-]\d{..}[/-]\d{..} match at p with the three widths of w, both
\* ends on a word boundary
DateShape(s, p, w) ==
    /\ WordBoundary(s, p)
    /\ Digits(s, p, w[1])
    /\ IsDateSep(Ch(s, p + w[1]))
    /\ Digits(s, p + w[1] + 1, w[2])
    /\ IsDateSep(Ch(s, p + w[1] + 1 + w[2]))
    /\ Digits(s, p + w[1] + w[2] + 2, w[3])
    /\ WordBoundary(s, p + w[1] + w[2] + w[3] + 2)

\* the widths the regex engine tries, greedy first: \d{1,2} \d{1,2} \d{2,4},
\* then the second alternative \d{4} \d{1,2} \d{1,2}
DateWidths ==
    << <<2, 2, 4>>, <<2, 2, 3>>, <<2, 2, 2>>, <<2, 1, 4>>, <<2, 1, 3>>, <<2, 1, 2>>,
       <<1, 2, 4>>, <<1, 2, 3>>, <<1, 2, 2>>, <<1, 1, 4>>, <<1, 1, 3>>, <<1, 1, 2>>,
       <<4, 2, 2>>, <<4, 2, 1>>, <<4, 1, 2>>, <<4, 1, 1>> >>

\* date_pattern at p: the index after the match, 0 when there is none
DateMatchEnd(s, p) ==
    LET ok == {k \in 1..Len(DateWidths) : DateShape(s, p, DateWidths[k])}
    IN IF ok = {} THEN 0
       ELSE LET w == DateWidths[Min(ok)] IN p + w[1] + w[2] + w[3] + 2

AmountSet == DigitSet \cup {","}
IsAmountChar(c) == c \in AmountSet

\* amount_pattern at p:  \$[\d,]+\.?\d*  |  \b\d+\.\d{2}\b
AmountMatchEnd(s, p) ==
    IF Ch(s, p) = "$" /\ IsAmountChar(Ch(s, p + 1))
    THEN LET q == p + 1 + RunLen(AmountSet, s, p + 1)
             r == IF Ch(s, q) = "." THEN q + 1 ELSE q
         IN r + RunLen(DigitSet, s, r)
    ELSE IF WordBoundary(s, p) /\ IsDigit(Ch(s, p))
    THEN LET q == p + RunLen(DigitSet, s, p)
         IN IF Ch(s, q) = "." /\ Digits(s, q + 1, 2) /\ WordBoundary(s, q + 3)
            THEN q + 3 ELSE 0
    ELSE 0

LocalSet == LetterSet \cup DigitSet \cup {".", "_", "%", "+", "-"}
DomainSet == LetterSet \cup DigitSet \cup {".", "-"}
\* the class [A-Z|a-z] holds the bar as well
TldSet == LetterSet \cup {"|"}

IsLocalChar(c) == c \in LocalSet

\* email_pattern at p: greedy local part up to "@", then the longest domain
\* that leaves "." and the longest top-level part of two or more characters
\* ending on a word boundary
EmailMatchEnd(s, p) ==
    IF ~(WordBoundary(s, p) /\ IsLocalChar(Ch(s, p))) THEN 0
    ELSE LET at == p + RunLen(LocalSet, s, p)
         IN IF Ch(s, at) # "@" THEN 0
            ELSE LET q == at + 1
                     m == RunLen(DomainSet, s, q)
                     TldEnds(dot) ==
                         {e \in (dot + 3)..(dot + 1 + RunLen(TldSet, s, dot + 1)) :
                             WordBoundary(s, e)}
                     dots == {d \in (q + 1)..(q + m - 1) :
                                 Ch(s, d) = "." /\ TldEnds(d) # {}}
                 IN IF dots = {} THEN 0 ELSE Max(TldEnds(Max(dots)))

\* the pattern matched at p: the index after the match, 0 when there is none
MatchEnd(pattern, s, p) ==
    CASE pattern = "date" -> DateMatchEnd(s, p)
      [] pattern = "amount" -> AmountMatchEnd(s, p)
      [] pattern = "email" -> EmailMatchEnd(s, p)

\* re.findall: scan left to right, non-overlapping matches
RECURSIVE FindAll(_, _, _)
FindAll(pattern, s, p) ==
    IF p > Len(s) THEN <<>>
    ELSE LET e == MatchEnd(pattern, s, p)
         IN IF e = 0 THEN FindAll(pattern, s, p + 1)
            ELSE <<SubSeq(s, p, e - 1)>> \o FindAll(pattern, s, e)

Range(f) == {f[i] : i \in DOMAIN f}

\* The elements of a list, each once, in order of first occurrence
RECURSIVE Unique(_)
Unique(L) ==
    IF L = <<>> THEN <<>>
    ELSE LET front == Unique(SubSeq(L, 1, Len(L) - 1))
             last == L[Len(L)]
         IN IF last \in Range(front) THEN front ELSE Append(front, last)

\* L rotated left by k places
Rotate(L, k) ==
    IF L = <<>> THEN <<>>
    ELSE [i \in 1..Len(L) |-> L[((i - 1 + k) % Len(L)) + 1]]

\* list(set(L)): every element once; the iteration order of a set of str
\* follows the strings' hashes, which the interpreter salts per process
\* (PYTHONHASHSEED), so the order is fixed within a process and differs
\* between processes. The orders of the model are the rotations of the
\* first-occurrence order.
ListOfSet(L, seed) == Rotate(Unique(L), seed)

\* _extract_entities_regex with list(re.findall(...)) in place of list(set(...))
ExtractWithoutDedup(text, seed) ==
    [names |-> <<>>,
     dates |-> FindAll("date", text, 1),
     amounts |-> FindAll("amount", text, 1),
     other |-> FindAll("email", text, 1)]

_extract_entities_regex(text, seed) ==
    [names |-> <<>>,
     dates |-> ListOfSet(FindAll("date", text, 1), seed),
     amounts |-> ListOfSet(FindAll("amount", text, 1), seed),
     other |-> ListOfSet(FindAll("email", text, 1), seed)]

\* the indices of the "." characters of text
DotsOf(text) == {i \in 1..Len(text) : Ch(text, i) = "."}

_generate_summary(text) ==
    LET dots == DotsOf(text)
    IN IF Cardinality(dots) + 1 > 3
       THEN LET d1 == Min(dots)
                d2 == Min(dots \ {d1})
            IN SubSeq(text, 1, d1 - 1) \o ". " \o SubSeq(text, d1 + 1, d2 - 1) \o "."
       ELSE IF Len(text) > SummaryLimit THEN Prefix(text, SummaryLimit) \o "..."
       ELSE text

PositiveWords == {"good", "great", "excellent", "positive", "success", "happy", "pleased"}
NegativeWords == {"bad", "terrible", "negative", "failure", "unhappy", "disappointed", "problem"}

\* sum(1 for word in words if word in text_lower)
WordsPresent(words, text_lower) == Cardinality({w \in words : Contains(w, text_lower)})

\* text_lower.count(word): the non-overlapping occurrences of word
RECURSIVE CountOf(_, _, _)
CountOf(word, s, p) ==
    IF p + Len(word) - 1 > Len(s) THEN 0
    ELSE IF SubSeq(s, p, p + Len(word) - 1) = word
    THEN 1 + CountOf(word, s, p + Len(word))
    ELSE CountOf(word, s, p + 1)

\* the occurrences of the words of a list in text_lower, repeats counted
RECURSIVE Occurrences(_, _)
Occurrences(words, text_lower) ==
    IF words = {} THEN 0
    ELSE LET w == CHOOSE x \in words : TRUE
         IN CountOf(w, text_lower, 1) + Occurrences(words \ {w}, text_lower)

\* the score of a positive and a negative count
ScoreOf(positive_count, negative_count) ==
    IF positive_count > negative_count
    THEN Min({SentimentMax, (positive_count - negative_count) * SentimentStep})
    ELSE IF negative_count > positive_count
    THEN Max({-SentimentMax, (negative_count - positive_count) * (-SentimentStep)})
    ELSE 0

\* _calculate_sentiment counting every occurrence of a word
SentimentByOccurrences(text) ==
    ScoreOf(Occurrences(PositiveWords, Lower(text)),
            Occurrences(NegativeWords, Lower(text)))

_calculate_sentiment(text) ==
    LET text_lower == Lower(text)
        positive_count == WordsPresent(PositiveWords, text_lower)
        negative_count == WordsPresent(NegativeWords, text_lower)
    IN IF positive_count > negative_count
       THEN Min({SentimentMax, (positive_count - negative_count) * SentimentStep})
       ELSE IF negative_count > positive_count
       THEN Max({-SentimentMax, (negative_count - positive_count) * (-SentimentStep)})
       ELSE 0

_fallback_analysis(text, seed) ==
    [document_type |-> _detect_document_type(text),
     key_entities |-> _extract_entities_regex(text, seed),
     summary |-> _generate_summary(text),
     sentiment_score |-> _calculate_sentiment(text)]

\* ------------------------------------------------------------ the inputs
\* Fragments of document text; a text is up to MaxFrags of them in a row.
Vocab == {"great ", "bad ", "Invoice ", "contract ", " ", "1/2/2020 "}

RECURSIVE FragTexts(_)
FragTexts(n) ==
    IF n = 0 THEN {""}
    ELSE LET shorter == FragTexts(n - 1)
         IN shorter \cup {t \o v : t \in shorter, v \in Vocab}

\* Longer documents, among them the examples of the specification.
SampleTexts ==
    {"great great good",
     "Contact a@b.com on 2024-01-15 for $1,250.00",
     "Great results this quarter, revenue $2.5M, date 2024-01-15",
     "good great excellent positive success pleased",
     "bad terrible negative failure disappointed problem",
     "unhappy with the terms of the REPORT",
     "3/4/2021 1/2/2020 3/4/2021 $7 $7 12.50 a@b.co x@y.org a@b.co",
     " \n",
     " good\r\nbad\r",
     "  cv one. two. three. four  "}

Texts == FragTexts(MaxFrags) \cup SampleTexts

\* per-token confidences of pytesseract.image_to_data (-1 marks a non-word box)
ConfValues == {-1, 0, 60, 91}

RECURSIVE ConfLists(_)
ConfLists(n) ==
    IF n = 0 THEN {<<>>}
    ELSE LET shorter == ConfLists(n - 1)
         IN shorter \cup {Append(c, v) : c \in shorter, v \in ConfValues}

\* What is stored under the file path: a plain-text file with its contents,
\* an image with what the OCR engine reads from it (the string of
\* image_to_string and the confidences of image_to_data), or nothing.
Files ==
    {[kind |-> "text", raw |-> t, conf |-> <<>>] : t \in Texts}
    \cup {[kind |-> "image", raw |-> t, conf |-> <<91>>] :
              t \in FragTexts(1) \cup SampleTexts}
    \cup {[kind |-> "image", raw |-> "scan", conf |-> c] : c \in ConfLists(MaxConfTokens)}
    \cup {[kind |-> "missing", raw |-> "", conf |-> <<>>]}

MimeTypes == {"image/png", "text/plain"}

HashSeeds == 0..MaxHashSeed

\* the path handed to process_document (an opaque handle of the file)
FilePath == "uploads/doc"
\* datetime.now().isoformat(), its value abstracted
Now == "now"

\* --------------------------------------------------------- Python values
\* dict[key] = value
DictSet(d, key, value) == (key :> value) @@ d
\* dict.get(key, default)
DictGet(d, key, default) == IF key \in DOMAIN d THEN d[key] ELSE default

\* A value json.loads can return: a dict, or something that is not a dict.
JDict(d) == [t |-> "dict", d |-> d]
JList == [t |-> "list", d |-> <<>>]

GoodEntities == [names |-> <<"Ann">>, dates |-> <<>>, amounts |-> <<>>, other |-> <<>>]
GoodAnalysis ==
    [document_type |-> "invoice", key_entities |-> GoodEntities,
     summary |-> "An invoice.", sentiment_score |-> 40]

\* JSON documents the backend may answer with
JsonValues ==
    {JDict(GoodAnalysis),
     JDict([GoodAnalysis EXCEPT !.sentiment_score = 500]),
     JDict([GoodAnalysis EXCEPT !.key_entities = [names |-> <<"Ann">>]]),
     JDict(DictSet(GoodAnalysis, "language", "en")),
     JDict(<<>>),
     JList}

\* What self.client.chat.completions.create does: it raises (network error,
\* rate limit), or returns a message whose content is None, text that is
\* not JSON, or a JSON document.
Replies ==
    {[kind |-> "raise", value |-> JList],
     [kind |-> "none", value |-> JList],
     [kind |-> "text", value |-> JList]}
    \cup {[kind |-> "json", value |-> v] : v \in JsonValues}

NoReply == [kind |-> "unsent", value |-> JList]

\* ------------------------------------------------------------- the state
VARIABLES
    api_key,        \* settings.openai_api_key is set, so NLPService.client exists
    hash_seed,      \* the str hash salt of the running interpreter process
    pc,             \* where process_document stands
    file,           \* what is stored under file_path
    mime_type,      \* the mime_type argument
    result,         \* the result dict of process_document
    text,           \* the local variable text
    request,        \* the document text of the last prompt sent to the backend
    response,       \* what the backend did with the request in flight
    remote_calls,   \* calls of chat.completions.create in this analyze_document
    path,           \* the return statement analyze_document left by
    prev,           \* the fallback analysis of the run before, same file and category
    document,       \* the Document row process_document_task works on
    task,           \* where process_document_task stands
    runs,           \* the frames of the calls of process_document in flight together
    overlap         \* two of these calls have been in flight at the same time

vars == <<api_key, hash_seed, pc, file, mime_type, result, text, request,
          response, remote_calls, path, prev, document, task, runs, overlap>>

NoRun == [run |-> "none"]

\* --------------------------------------------------------------- OCRService
\* confidences are kept in hundredths: round(x, 2) has two decimal places
ConfScale == 100

RECURSIVE SumSeq(_)
SumSeq(q) == IF q = <<>> THEN 0 ELSE q[1] + SumSeq(Tail(q))

IsPositive(c) == c > 0

\* round(total / n, 2), in hundredths, to the nearest
Round2(total, n) == (2 * ConfScale * total + n) \div (2 * n)

\* str(e) of what Image.open raises
ImageOpenError(f) ==
    IF f.kind = "missing" THEN "No such file or directory"
    ELSE "cannot identify image file"

\* extract_text averaging every confidence, the non-positive ones included
ExtractTextMeanOfAll(f) ==
    IF f.kind # "image"
    THEN [text |-> "", confidence |-> 0, word_count |-> 0, character_count |-> 0,
          error |-> ImageOpenError(f)]
    ELSE [text |-> Strip(f.raw),
          confidence |-> IF f.conf # <<>> THEN Round2(SumSeq(f.conf), Len(f.conf)) ELSE 0,
          word_count |-> SplitCount(f.raw),
          character_count |-> Len(f.raw)]

OCRService_extract_text(f) ==
    IF f.kind # "image"
    THEN [text |-> "", confidence |-> 0, word_count |-> 0, character_count |-> 0,
          error |-> ImageOpenError(f)]
    ELSE LET confidences == SelectSeq(f.conf, IsPositive)
             avg_confidence ==
                 IF confidences # <<>>
                 THEN Round2(SumSeq(confidences), Len(confidences))
                 ELSE 0
         IN [text |-> Strip(f.raw),
             confidence |-> avg_confidence,
             word_count |-> SplitCount(f.raw),
             character_count |-> Len(f.raw)]

\* ------------------------------------------------------ DocumentProcessor
\* the step put at the front of the log
PrependStep(res, step) == [res EXCEPT !["steps_completed"] = <<step>> \o @]

\* result["steps_completed"].append(step)
AppendStep(res, step) == [res EXCEPT !["steps_completed"] = Append(@, step)]
\* result["errors"].append(msg)
AppendError(res, msg) == [res EXCEPT !["errors"] = Append(@, msg)]

\* an except clause that records the message and nothing else
ExceptMessageOnly(res, msg) == AppendError(res, msg)

\* the except clause of process_document
ExceptHandler(res, msg) ==
    DictSet(DictSet(AppendError(res, msg), "status", "failed"),
            "processing_completed_at", Now)

IsImage(m) == StartsWith(m, "image/")

\* a client built whether or not a key is configured
ClientAlwaysBuilt == TRUE

\* self.client of NLPService
HasClient == api_key

RunIds == 1..NumRuns

\* db.query(Document)...first() finds no row
NoDocument == [row |-> "none"]

\* the row upload_document creates
NewDocument == [status |-> "pending"]

\* the task marks the row before it calls the pipeline
StartDocument(doc) ==
    DictSet(DictSet(doc, "status", "processing"), "processing_started_at", Now)

\* the row marked failed, in the else branch and in the except clause
FailDocument(doc) ==
    DictSet(DictSet(doc, "status", "failed"), "processing_completed_at", Now)

\* result.get(key) of a key the record may lack
None == "None"

\* the row with the fields of a completed record
CompleteDocument(doc, res) ==
    DictSet(DictSet(DictSet(DictSet(DictSet(DictSet(DictSet(DictSet(DictSet(doc,
        "status", "completed"),
        "processing_completed_at", Now),
        "extracted_text", DictGet(res, "extracted_text", None)),
        "structured_data", DictGet(res, "structured_data", None)),
        "confidence_score", DictGet(res, "confidence_score", None)),
        "document_type", DictGet(res, "document_type", None)),
        "key_entities", DictGet(res, "key_entities", None)),
        "summary", DictGet(res, "summary", None)),
        "sentiment_score", DictGet(res, "sentiment_score", None))

\* the store step with the KeyError of result["status"] left uncaught
StoreWithoutExcept(doc, res) ==
    IF "status" \notin DOMAIN res THEN doc
    ELSE IF res["status"] = "completed" THEN CompleteDocument(doc, res)
    ELSE FailDocument(doc)

\* what the task stores for the record res: result["status"] raises KeyError
\* on a record without status, and the except clause marks the row failed
StoreResult(doc, res) ==
    IF "status" \notin DOMAIN res THEN FailDocument(doc)
    ELSE IF res["status"] = "completed" THEN CompleteDocument(doc, res)
    ELSE FailDocument(doc)

\* the frame of a call of process_document that has not been made
IdleRun ==
    [pc |-> "idle",
     file |-> [kind |-> "missing", raw |-> "", conf |-> <<>>],
     mime_type |-> "text/plain",
     result |-> <<>>,
     text |-> "",
     response |-> NoReply]

Init ==
    /\ api_key \in BOOLEAN
    /\ document \in {NewDocument, NoDocument}
    /\ task = "queued"
    /\ runs = [i \in RunIds |-> IdleRun]
    /\ overlap = FALSE
    /\ hash_seed \in HashSeeds
    /\ pc = "idle"
    /\ file = [kind |-> "missing", raw |-> "", conf |-> <<>>]
    /\ mime_type = "text/plain"
    /\ result = <<>>
    /\ text = ""
    /\ request = ""
    /\ response = NoReply
    /\ remote_calls = 0
    /\ path = "none"
    /\ prev = NoRun

\* the result dict as process_document creates it
NewResult(m) ==
    [file_path |-> FilePath,
     mime_type |-> m,
     processing_started_at |-> Now,
     steps_completed |-> <<>>,
     errors |-> <<>>]

\* the task finds no row for its document id and returns
TaskNotFound ==
    /\ task = "queued"
    /\ document = NoDocument
    /\ task' = "finished"
    /\ UNCHANGED <<overlap, runs, document, api_key, hash_seed, pc, file, mime_type,
                   result, text, request, response, remote_calls, path, prev>>

\* the first task of this process marks its row and calls process_document
Start(f, m) ==
    /\ pc = "idle"
    /\ task = "queued"
    /\ document # NoDocument
    /\ document' = StartDocument(document)
    /\ task' = "running"
    /\ pc' = "extract"
    /\ file' = f
    /\ mime_type' = m
    /\ result' = NewResult(m)
    /\ UNCHANGED <<overlap, runs, api_key, hash_seed, text, request, response, remote_calls,
                   path, prev>>

\* a later task, for a new row, calls process_document again on the same
\* file and category. (A call
\* on another file starts from a state Start reaches: no variable but the
\* observer prev outlives a run.)
Rerun ==
    /\ pc \in {"done", "restarted"}
    /\ task = "finished"
    /\ document' = StartDocument(NewDocument)
    /\ task' = "running"
    /\ pc' = "extract"
    /\ result' = NewResult(mime_type)
    /\ text' = ""
    /\ request' = ""
    /\ response' = NoReply
    /\ remote_calls' = 0
    /\ path' = "none"
    /\ prev' = IF path = "fallback" THEN result["nlp_result"] ELSE NoRun
    /\ UNCHANGED <<overlap, runs, api_key, hash_seed, file, mime_type>>

\* Step 1 for an image: OCR, with the early return on an OCR error
ExtractImage ==
    /\ pc = "extract"
    /\ IsImage(mime_type)
    /\ LET ocr_result == OCRService_extract_text(file)
           logged == AppendStep(DictSet(result, "ocr_result", ocr_result), "ocr")
       IN IF "error" \in DOMAIN ocr_result
          THEN /\ result' = AppendError(logged, "OCR failed: " \o ocr_result.error)
               /\ pc' = "done"
               /\ text' = text
          ELSE /\ result' = logged
               /\ pc' = "nlp"
               /\ text' = ocr_result.text
    /\ UNCHANGED <<overlap, runs, document, task, api_key, hash_seed, file, mime_type, request, response,
                   remote_calls, path, prev>>

\* f.read() in text mode decoding s: universal newlines, "\r\n" and "\r"
\* become "\n"
RECURSIVE TextModeRead(_)
TextModeRead(s) ==
    IF Len(s) = 0 THEN ""
    ELSE IF Ch(s, 1) = "\r"
    THEN "\n" \o TextModeRead(SubSeq(s, IF Ch(s, 2) = "\n" THEN 3 ELSE 2, Len(s)))
    ELSE Ch(s, 1) \o TextModeRead(SubSeq(s, 2, Len(s)))

\* the read with the text trimmed
ReadTrimmed(f) == Strip(TextModeRead(f.raw))

\* with open(file_path, 'r', encoding='utf-8') as f: text = f.read()
ReadFile(f) == TextModeRead(f.raw)

\* Step 1 otherwise: the file is read as UTF-8 text
ExtractText ==
    /\ pc = "extract"
    /\ ~IsImage(mime_type)
    /\ IF file.kind = "text"
       THEN /\ text' = ReadFile(file)
            /\ result' = AppendStep(result, "text_extraction")
            /\ pc' = "nlp"
       ELSE /\ text' = text
            /\ result' = ExceptHandler(result,
                   IF file.kind = "missing" THEN "No such file or directory"
                   ELSE "'utf-8' codec can't decode byte")
            /\ pc' = "done"
    /\ UNCHANGED <<overlap, runs, document, task, api_key, hash_seed, file, mime_type, request, response,
                   remote_calls, path, prev>>

\* Step 2 with blank text: the early return
NoTextExtracted ==
    /\ pc = "nlp"
    /\ Strip(text) = ""
    /\ result' = AppendError(result, "No text extracted from document")
    /\ pc' = "done"
    /\ UNCHANGED <<overlap, runs, document, task, api_key, hash_seed, file, mime_type, text, request, response,
                   remote_calls, path, prev>>

\* what analyze_document returns for a reply of the backend: the parsed JSON
\* as it is, or the fallback analysis when the call or json.loads raised
AnalysisOfReply(reply, txt, seed) ==
    IF reply.kind = "json" THEN reply.value
    ELSE JDict(_fallback_analysis(txt, seed))

PathOfReply(reply) == IF reply.kind = "json" THEN "remote" ELSE "fallback"

\* Step 2, no client: analyze_document returns the fallback analysis
AnalyzeNoClient ==
    /\ pc = "nlp"
    /\ Strip(text) # ""
    /\ ~HasClient
    /\ result' = AppendStep(DictSet(result, "nlp_result",
                                    JDict(_fallback_analysis(text, hash_seed))),
                            "nlp_analysis")
    /\ path' = "fallback"
    /\ pc' = "compile"
    /\ UNCHANGED <<overlap, runs, document, task, api_key, hash_seed, file, mime_type, text, request, response,
                   remote_calls, prev>>

\* Step 2 with a client: the prompt is built and chat.completions.create called
RemoteCall(reply) ==
    /\ pc = "nlp"
    /\ Strip(text) # ""
    /\ HasClient
    /\ request' = Prefix(text, PromptLimit)
    /\ response' = reply
    /\ remote_calls' = remote_calls + 1
    /\ pc' = "reply"
    /\ UNCHANGED <<overlap, runs, document, task, api_key, hash_seed, file, mime_type, result, text, path, prev>>

\* the call has returned or raised: json.loads, or the except clause
HandleReply ==
    /\ pc = "reply"
    /\ result' = AppendStep(DictSet(result, "nlp_result",
                                    AnalysisOfReply(response, text, hash_seed)),
                            "nlp_analysis")
    /\ path' = PathOfReply(response)
    /\ pc' = "compile"
    /\ UNCHANGED <<overlap, runs, document, task, api_key, hash_seed, file, mime_type, text, request, response,
                   remote_calls, prev>>

\* Step 3: the final fields; nlp_result.get raises when nlp_result is no dict
Compile ==
    /\ pc = "compile"
    /\ LET nlp_result == result["nlp_result"]
           with_text == DictSet(result, "extracted_text", text)
       IN IF nlp_result.t # "dict"
          THEN result' = ExceptHandler(with_text, "object has no attribute 'get'")
          ELSE result' =
                 DictSet(DictSet(DictSet(DictSet(DictSet(DictSet(DictSet(with_text,
                     "document_type", DictGet(nlp_result.d, "document_type", "unknown")),
                     "key_entities", DictGet(nlp_result.d, "key_entities", <<>>)),
                     "summary", DictGet(nlp_result.d, "summary", "")),
                     "sentiment_score", DictGet(nlp_result.d, "sentiment_score", 0)),
                     "confidence_score",
                         IF IsImage(mime_type)
                         THEN DictGet(result["ocr_result"], "confidence", 100 * ConfScale)
                         ELSE 100 * ConfScale),
                     "processing_completed_at", Now),
                     "status", "completed")
    /\ pc' = "done"
    /\ UNCHANGED <<overlap, runs, document, task, api_key, hash_seed, file, mime_type, text, request, response,
                   remote_calls, path, prev>>

\* process_document has returned: the task stores the outcome and commits
TaskStore ==
    /\ pc = "done"
    /\ task = "running"
    /\ document' = StoreResult(document, result)
    /\ task' = "finished"
    /\ UNCHANGED <<overlap, runs, api_key, hash_seed, pc, file, mime_type, result, text,
                   request, response, remote_calls, path, prev>>

\* the service process is started anew: the interpreter draws a new hash salt
Restart ==
    /\ pc = "done"
    /\ task = "finished"
    /\ hash_seed' \in HashSeeds
    /\ pc' = "restarted"
    /\ UNCHANGED <<overlap, runs, document, task, api_key, file, mime_type, result, text, request, response,
                   remote_calls, path, prev>>

Next ==
    \/ TaskNotFound
    \/ \E f \in Files, m \in MimeTypes : Start(f, m)
    \/ Rerun
    \/ ExtractImage
    \/ ExtractText
    \/ NoTextExtracted
    \/ AnalyzeNoClient
    \/ \E reply \in Replies : RemoteCall(reply)
    \/ HandleReply
    \/ Compile
    \/ TaskStore
    \/ Restart

Spec == Init /\ [][Next]_vars

\* ------------------------------------------- calls in flight together
\* main.py builds one DocumentProcessor (processor) and every task calls its
\* process_document. The method keeps result and text in its own frame and
\* reads self.ocr_service, self.nlp_service and the client, which nothing
\* assigns after __init__.

\* the documents and replies of the calls in flight
ConcInputs ==
    {<<[kind |-> "text", raw |-> "great great good"], "text/plain">>,
     <<[kind |-> "text", raw |-> "Invoice 1/2/2020 bad "], "text/plain">>,
     <<[kind |-> "image", raw |-> " ", conf |-> <<91>>], "image/png">>}

ConcReplies ==
    {[kind |-> "raise", value |-> JList],
     [kind |-> "json", value |-> JDict(GoodAnalysis)]}

\* the frame of a call of process_document(file_path, mime_type)
CallRun(f, m) ==
    [pc |-> "extract",
     file |-> f,
     mime_type |-> m,
     result |-> NewResult(m),
     text |-> "",
     response |-> NoReply]

\* Step 1 in the frame r
ExtractStep(r) ==
    IF IsImage(r.mime_type)
    THEN LET ocr_result == OCRService_extract_text(r.file)
             logged == AppendStep(DictSet(r.result, "ocr_result", ocr_result), "ocr")
         IN IF "error" \in DOMAIN ocr_result
            THEN [r EXCEPT !.result = AppendError(logged, "OCR failed: " \o ocr_result.error),
                           !.pc = "done"]
            ELSE [r EXCEPT !.result = logged, !.pc = "nlp", !.text = ocr_result.text]
    ELSE IF r.file.kind = "text"
    THEN [r EXCEPT !.text = ReadFile(r.file),
                   !.result = AppendStep(r.result, "text_extraction"),
                   !.pc = "nlp"]
    ELSE [r EXCEPT !.result = ExceptHandler(r.result,
                       IF r.file.kind = "missing" THEN "No such file or directory"
                       ELSE "'utf-8' codec can't decode byte"),
                   !.pc = "done"]

\* Step 2 in the frame r up to the return of analyze_document or, with a
\* client, up to the call of the backend, which answers with reply
AnalyzeStep(r, reply) ==
    IF Strip(r.text) = ""
    THEN [r EXCEPT !.result = AppendError(r.result, "No text extracted from document"),
                   !.pc = "done"]
    ELSE IF ~HasClient
    THEN [r EXCEPT !.result = AppendStep(DictSet(r.result, "nlp_result",
                                  JDict(_fallback_analysis(r.text, hash_seed))),
                              "nlp_analysis"),
                   !.pc = "compile"]
    ELSE [r EXCEPT !.response = reply, !.pc = "reply"]

\* the backend call of the frame r has returned or raised
ReplyStep(r) ==
    [r EXCEPT !.result = AppendStep(DictSet(r.result, "nlp_result",
                             AnalysisOfReply(r.response, r.text, hash_seed)),
                         "nlp_analysis"),
              !.pc = "compile"]

\* Step 3 in the frame r
CompileStep(r) ==
    LET nlp_result == r.result["nlp_result"]
        with_text == DictSet(r.result, "extracted_text", r.text)
    IN IF nlp_result.t # "dict"
       THEN [r EXCEPT !.result = ExceptHandler(with_text, "object has no attribute 'get'"),
                      !.pc = "done"]
       ELSE [r EXCEPT !.result =
                 DictSet(DictSet(DictSet(DictSet(DictSet(DictSet(DictSet(with_text,
                     "document_type", DictGet(nlp_result.d, "document_type", "unknown")),
                     "key_entities", DictGet(nlp_result.d, "key_entities", <<>>)),
                     "summary", DictGet(nlp_result.d, "summary", "")),
                     "sentiment_score", DictGet(nlp_result.d, "sentiment_score", 0)),
                     "confidence_score",
                         IF IsImage(r.mime_type)
                         THEN DictGet(r.result["ocr_result"], "confidence", 100 * ConfScale)
                         ELSE 100 * ConfScale),
                     "processing_completed_at", Now),
                     "status", "completed"),
                      !.pc = "done"]

\* text kept in one slot of the shared processor instead of the frame
RunShared(rs, i, r) ==
    [j \in DOMAIN rs |-> IF j = i THEN r ELSE [rs[j] EXCEPT !.text = r.text]]

\* the frame of call i becomes r: result and text are locals of the call
RunLocal(rs, i, r) == [rs EXCEPT ![i] = r]

\* another call is between its first and its last statement
OthersInFlight(i) == \E j \in RunIds \ {i} : runs[j].pc \notin {"idle", "done"}

\* call i takes a step to the frame r; overlap records that another call
\* was in flight at that step
Stepped(i, r) ==
    /\ runs' = RunLocal(runs, i, r)
    /\ overlap' = (overlap \/ OthersInFlight(i))

ConcFixed ==
    UNCHANGED <<api_key, hash_seed, pc, file, mime_type, result, text, request,
                response, remote_calls, path, prev, document, task>>

ConcCall(i, f, m) ==
    /\ runs[i].pc = "idle"
    /\ Stepped(i, CallRun(f, m))
    /\ ConcFixed

ConcExtract(i) ==
    /\ runs[i].pc = "extract"
    /\ Stepped(i, ExtractStep(runs[i]))
    /\ ConcFixed

ConcAnalyze(i, reply) ==
    /\ runs[i].pc = "nlp"
    /\ Stepped(i, AnalyzeStep(runs[i], reply))
    /\ ConcFixed

ConcReply(i) ==
    /\ runs[i].pc = "reply"
    /\ Stepped(i, ReplyStep(runs[i]))
    /\ ConcFixed

ConcCompile(i) ==
    /\ runs[i].pc = "compile"
    /\ Stepped(i, CompileStep(runs[i]))
    /\ ConcFixed

NextConc ==
    \/ \E i \in RunIds, in \in ConcInputs : ConcCall(i, in[1], in[2])
    \/ \E i \in RunIds : ConcExtract(i)
    \/ \E i \in RunIds, reply \in ConcReplies : ConcAnalyze(i, reply)
    \/ \E i \in RunIds : ConcReply(i)
    \/ \E i \in RunIds : ConcCompile(i)

InitConc == Init /\ document = NewDocument

SpecConc == InitConc /\ [][NextConc]_vars

\* ------------------------------------------------------------ the claims
Returned == pc = "done"
Steps == result["steps_completed"]
Errors == result["errors"]
HasStatus(st) == "status" \in DOMAIN result /\ result["status"] = st

\* analyze_document has returned in this run, by the fallback path
FallbackReturned == pc \in {"compile", "done"} /\ path = "fallback"
\* ... and what it returned
Analysis == result["nlp_result"].d

\* C1: the record process_document returns carries a status, 'completed' or
\* 'failed', whatever the input and whatever the stages do.
C1_TerminalStatus == Returned => (HasStatus("completed") \/ HasStatus("failed"))

\* C2: an image whose OCR succeeds with blank text ends with status 'failed',
\* a 'No text extracted' error and the step log ['ocr'].
C2_BlankImageFailed ==
    (Returned /\ IsImage(mime_type) /\ file.kind = "image" /\ Strip(file.raw) = "")
        => /\ HasStatus("failed")
           /\ \E i \in DOMAIN Errors : Contains("No text extracted", Errors[i])
           /\ Steps = <<"ocr">>

\* C3: a run in which the analysis stage was invoked ends 'completed',
\* whatever the backend answered.
C3_AnalysedRunCompletes ==
    (Returned /\ \E i \in DOMAIN Steps : Steps[i] = "nlp_analysis")
        => HasStatus("completed")

AnalysisFields == {"document_type", "key_entities", "summary", "sentiment_score"}
EntityKeys == {"names", "dates", "amounts", "other"}

\* the parsed reply is an object with exactly the four fields
WellFormed(v) == v.t = "dict" /\ DOMAIN v.d = AnalysisFields

\* C4: with a backend configured, analyze_document returns the fallback
\* analysis whenever the call raises, the content is empty or not JSON, or
\* the JSON is not an object of exactly the four fields.
C4_MalformedReplyFallsBack ==
    (pc \in {"compile", "done"} /\ api_key /\ response.kind # "unsent"
        /\ (response.kind # "json" \/ ~WellFormed(response.value)))
        => result["nlp_result"] = JDict(_fallback_analysis(text, hash_seed))

\* C5: every analysis analyze_document returns has a sentiment_score within
\* [-100, 100] and key_entities with the keys names, dates, amounts, other.
C5_AnalysisShape ==
    "nlp_result" \in DOMAIN result =>
        LET v == result["nlp_result"]
        IN /\ v.t = "dict"
           /\ "sentiment_score" \in DOMAIN v.d
           /\ v.d["sentiment_score"] \in (-SentimentMax)..SentimentMax
           /\ "key_entities" \in DOMAIN v.d
           /\ EntityKeys \subseteq DOMAIN v.d["key_entities"]

\* C6: two fallback analyses of the same file and category are identical,
\* the order of every key_entities list included.
C6_FallbackRepeatable ==
    (FallbackReturned /\ prev # NoRun) => result["nlp_result"] = prev

\* C7: without a credential analyze_document makes no remote call and
\* returns the fallback analysis; with one it makes at most one call.
C7_RemoteCalls ==
    /\ remote_calls <= 1
    /\ ~api_key => (remote_calls = 0 /\ response = NoReply)
    /\ (~api_key /\ pc \in {"compile", "done"} /\ "nlp_result" \in DOMAIN result)
        => /\ path = "fallback"
           /\ result["nlp_result"] = JDict(_fallback_analysis(text, hash_seed))

C7_Witness ==
    /\ ~api_key /\ Returned /\ path = "fallback" /\ remote_calls = 0
    /\ HasStatus("completed")

\* C8, as stated: the scorer counts occurrences, so 'great great good'
\* scores 60.
C8_OccurrenceScore ==
    FallbackReturned =>
        /\ Analysis["sentiment_score"] = SentimentByOccurrences(text)
        /\ text = "great great good" => Analysis["sentiment_score"] = 60

\* C8, amended: the scorer counts the words of each list that occur in the
\* lower-cased text at least once, so 'great great good' scores 40; the
\* score is min(100, (p-n)*20) for p > n, max(-100, (n-p)*-20) for n > p,
\* and 0 for p = n.
C8_MembershipScore ==
    FallbackReturned =>
        LET lo == Lower(text)
            p == Cardinality({w \in PositiveWords : Contains(w, lo)})
            n == Cardinality({w \in NegativeWords : Contains(w, lo)})
            score == Analysis["sentiment_score"]
        IN /\ p > n => score = (IF (p - n) * 20 < 100 THEN (p - n) * 20 ELSE 100)
           /\ n > p => score = (IF (n - p) * (-20) > -100 THEN (n - p) * (-20) ELSE -100)
           /\ p = n => score = 0
           /\ text = "great great good" => score = 40

C8_Witness ==
    /\ Returned /\ path = "fallback" /\ text = "great great good"
    /\ Analysis["sentiment_score"] = 40

\* C9: the classifier returns the first of invoice, contract, report,
\* resume that has a keyword in the lower-cased text, else
\* general_document; invoice wins over contract.
C9_ClassifierPriority ==
    FallbackReturned =>
        LET lo == Lower(text)
            inv == AnyWordIn(InvoiceWords, lo)
            con == AnyWordIn(ContractWords, lo)
            rep == AnyWordIn(ReportWords, lo)
            res == AnyWordIn(ResumeWords, lo)
            type == Analysis["document_type"]
        IN /\ inv => type = "invoice"
           /\ (~inv /\ con) => type = "contract"
           /\ (~inv /\ ~con /\ rep) => type = "report"
           /\ (~inv /\ ~con /\ ~rep /\ res) => type = "resume"
           /\ (~inv /\ ~con /\ ~rep /\ ~res) => type = "general_document"

C9_Witness ==
    /\ Returned /\ path = "fallback"
    /\ Contains("invoice", Lower(text)) /\ Contains("contract", Lower(text))
    /\ Analysis["document_type"] = "invoice"

NoDuplicates(L) == \A i, j \in DOMAIN L : L[i] = L[j] => i = j

\* C10: the fallback leaves 'names' empty, and 'dates', 'amounts' and
\* 'other' hold the matches of their patterns, each once.
C10_FallbackEntities ==
    FallbackReturned =>
        LET e == Analysis["key_entities"]
        IN /\ e.names = <<>>
           /\ NoDuplicates(e.dates) /\ NoDuplicates(e.amounts) /\ NoDuplicates(e.other)
           /\ Range(e.dates) = Range(FindAll("date", text, 1))
           /\ Range(e.amounts) = Range(FindAll("amount", text, 1))
           /\ Range(e.other) = Range(FindAll("email", text, 1))

C10_Witness ==
    /\ Returned /\ path = "fallback"
    /\ Len(FindAll("date", text, 1)) = 3
    /\ Len(Analysis["key_entities"].dates) = 2
    /\ Len(Analysis["key_entities"].amounts) = 2
    /\ Len(Analysis["key_entities"].other) = 2
    /\ Analysis["key_entities"].names = <<>>

RECURSIVE NewlinesTranslated(_)
NewlinesTranslated(s) ==
    IF Len(s) = 0 THEN ""
    ELSE LET front == SubSeq(s, 1, Len(s) - 1)
             last == Ch(s, Len(s))
         IN IF last = "\r" THEN NewlinesTranslated(front) \o "\n"
            ELSE IF last = "\n" /\ Ch(s, Len(s) - 1) = "\r"
            THEN NewlinesTranslated(SubSeq(s, 1, Len(s) - 2)) \o "\n"
            ELSE NewlinesTranslated(front) \o last

OcrRan == pc # "idle" /\ "ocr_result" \in DOMAIN result /\ file.kind = "image"
\* the positions of the confidences above 0
PositiveTokens == {i \in DOMAIN file.conf : file.conf[i] > 0}
PositiveTotal == SumSeq([i \in DOMAIN file.conf |->
                            IF file.conf[i] > 0 THEN file.conf[i] ELSE 0])

\* C12, as stated: the confidence is the mean of the confidences above 0,
\* and 0 without an error when there is none.
C12_ExactMean ==
    OcrRan =>
        LET ocr == result["ocr_result"]
            n == Cardinality(PositiveTokens)
        IN /\ "error" \notin DOMAIN ocr
           /\ n = 0 => ocr.confidence = 0
           /\ n > 0 => ocr.confidence * n = ConfScale * PositiveTotal

\* C12, amended: the confidence is the mean of the confidences above 0
\* rounded to two decimal places, and 0 without an error when there is none.
C12_RoundedMean ==
    OcrRan =>
        LET ocr == result["ocr_result"]
            n == Cardinality(PositiveTokens)
            off == ocr.confidence * n - ConfScale * PositiveTotal
        IN /\ "error" \notin DOMAIN ocr
           /\ n = 0 => ocr.confidence = 0
           /\ n > 0 => (2 * off <= n /\ 2 * off >= -n)

C12_Witness ==
    /\ OcrRan /\ Returned
    /\ file.conf # <<>> /\ PositiveTokens = {}
    /\ result["ocr_result"].confidence = 0
    /\ "error" \notin DOMAIN result["ocr_result"]

\* the name of the extraction step of this run
ExtractionStep == IF IsImage(mime_type) THEN "ocr" ELSE "text_extraction"

IsPrefixOf(a, b) == Len(a) <= Len(b) /\ a = SubSeq(b, 1, Len(a))

\* the log is a prefix of [E, 'nlp_analysis'], and a name is in it only
\* once its stage has run
StepLogOrdered ==
    pc # "idle" =>
        /\ IsPrefixOf(Steps, <<ExtractionStep, "nlp_analysis">>)
        /\ pc = "extract" => Steps = <<>>
        /\ pc \in {"nlp", "reply"} => Steps = <<ExtractionStep>>
        /\ pc = "compile" => Steps = <<ExtractionStep, "nlp_analysis">>
        /\ (Len(Steps) >= 1 /\ IsImage(mime_type)) => "ocr_result" \in DOMAIN result
        /\ (Len(Steps) >= 1 /\ ~IsImage(mime_type)) => file.kind = "text"
        /\ Len(Steps) >= 2 => "nlp_result" \in DOMAIN result

\* within a run a step of the pipeline only extends the log
StepLogKept ==
    pc \in {"extract", "nlp", "reply", "compile"} => IsPrefixOf(Steps, Steps')

\* C13: in every state the step log is a prefix of [E, 'nlp_analysis'], a
\* stage's name is appended only after the stage has run, and no entry is
\* ever removed or reordered, on the failure paths as well.
C13_StepLog == [][StepLogOrdered /\ StepLogOrdered' /\ StepLogKept]_vars

C13_Witness ==
    /\ Returned /\ HasStatus("failed")
    /\ Steps = <<"ocr", "nlp_analysis">>

\* the record of a run that ended in the except clause with message msg
FailedWith(msg) ==
    /\ HasStatus("failed")
    /\ Errors # <<>> /\ Errors[Len(Errors)] = msg
    /\ "processing_completed_at" \in DOMAIN result

\* C14: an exception raised during orchestration gives a record with status
\* 'failed', the message as the last error, a completion timestamp, and the
\* step log as it was before the failing stage (empty for a failed read).
C14_ExceptionRecorded ==
    Returned =>
        /\ (~IsImage(mime_type) /\ file.kind = "missing")
               => (FailedWith("No such file or directory") /\ Steps = <<>>)
        /\ (~IsImage(mime_type) /\ file.kind = "image")
               => (FailedWith("'utf-8' codec can't decode byte") /\ Steps = <<>>)
        /\ ("nlp_result" \in DOMAIN result /\ result["nlp_result"].t # "dict")
               => /\ FailedWith("object has no attribute 'get'")
                  /\ Steps = <<ExtractionStep, "nlp_analysis">>

C14_Witness ==
    /\ Returned /\ ~IsImage(mime_type) /\ file.kind = "missing"
    /\ HasStatus("failed") /\ Steps = <<>>
    /\ Errors = <<"No such file or directory">>

\* C15: on a successful OCR extraction word_count is the number of
\* whitespace-delimited tokens of the trimmed text and character_count is
\* the length of the trimmed text, the returned text field.
C15_TrimmedCounts ==
    OcrRan =>
        LET ocr == result["ocr_result"]
        IN /\ ocr.text = Strip(file.raw)
           /\ ocr.word_count = SplitCount(ocr.text)
           /\ ocr.character_count = Len(ocr.text)

\* C17: for a row that exists, once process_document_task has finished the
\* stored status is completed or failed; it is completed only if the status
\* of the pipeline record is completed, and a record without a status field
\* leaves the stored status failed.
TaskFinished == task = "finished" /\ document # NoDocument
C17_StoredStatus ==
    TaskFinished =>
        /\ document["status"] \in {"completed", "failed"}
        /\ (document["status"] = "completed" => HasStatus("completed"))
        /\ ("status" \notin DOMAIN result => document["status"] = "failed")

\* a task has finished on a record without status and the row is failed
C17_Witness ==
    /\ TaskFinished
    /\ pc = "done"
    /\ "status" \notin DOMAIN result
    /\ document["status"] = "failed"

\* C16: calls of process_document in flight together on the one processor
\* share no mutable state: under every interleaving of their steps the record
\* a call returns equals the record the same call returns when it runs alone.
RunAlone(f, m, reply) ==
    LET r1 == ExtractStep(CallRun(f, m))
        r2 == IF r1.pc = "nlp" THEN AnalyzeStep(r1, reply) ELSE r1
        r3 == IF r2.pc = "reply" THEN ReplyStep(r2) ELSE r2
    IN IF r3.pc = "compile" THEN CompileStep(r3) ELSE r3
RunDone(i) == runs[i].pc = "done"
C16_RunsIndependent ==
    \A i \in RunIds :
        RunDone(i) =>
            runs[i].result =
                RunAlone(runs[i].file, runs[i].mime_type, runs[i].response).result

\* two calls on different texts have overlapped and both have returned an
\* analysed record
C16_Witness ==
    /\ RunDone(1) /\ RunDone(2)
    /\ overlap
    /\ runs[1].text # runs[2].text
    /\ "nlp_result" \in DOMAIN runs[1].result
    /\ "nlp_result" \in DOMAIN runs[2].result

====
